---- MODULE Spec2Model ----
(***************************************************************************)
(* A model of youtube2korean.py: the sentence chunker _split_text, the     *)
(* chunked translation with per-chunk retry and fallback (translate_text), *)
(* the synthesis stage (text_to_speech) and the four-stage pipeline        *)
(* process_youtube_video.                                                  *)
(*                                                                         *)
(* A Python str is modelled as a sequence of one-character strings, so     *)
(* that replace, split, strip, len and join are computed character by      *)
(* character. Python's None is the value None below.                       *)
(***************************************************************************)
EXTENDS Integers, Sequences, FiniteSets, TLC

VARIABLES
    \* ---- the YouTube2Korean object and one call of process_youtube_video
    ollama_model,       \* self.ollama_model: "gemma3:4b" or None
    pc,                 \* position of the running call
    entry,              \* which public method was called: "process" or "translate"
    audio_file,         \* process_youtube_video: audio_file
    english_text,       \* translate_text: english_text
    korean_text,        \* the value translate_text returned (NotYet before)
    output_file,        \* the value text_to_speech returned (NotYet before)
    result,             \* what process_youtube_video returned: "none", "True", "False"
    \* ---- translate_text locals
    chunks, i, retry_count, translated, translated_chunks,
    \* ---- text_to_speech locals
    tts_chunks, tts_i, audio_files,
    tts_saved,          \* one record per tts.save call: the file and the text spoken
    tts_raised,         \* the chunk (counted from 1) on which gTTS raised, 0 if none
    \* ---- the file system
    temp_audio,         \* audio/temp_audio.wav: "absent", "present", "removed"
    translated_file,    \* contents of text/translated_text.txt, None if never written
    \* ---- the trace of collaborator calls (observation only)
    invoked,            \* the stage methods called so far, in call order
    returned_empty,     \* the stages whose return value was falsy
    exchanges,          \* one record per ollama.chat call: chunk index and reply
    sleeps,             \* for each chunk, the number of time.sleep(2) calls
    remove_calls,       \* number of os.remove(audio_file) calls
    \* ---- a separate call of _split_text on arbitrary arguments
    st_text, st_max_length, st_chunks, st_pc

pipe_vars == <<ollama_model, pc, entry, audio_file, english_text, korean_text,
               output_file, result, chunks, i, retry_count, translated,
               translated_chunks, tts_chunks, tts_i, audio_files, tts_saved,
               tts_raised, temp_audio,
               translated_file, invoked, returned_empty, exchanges, sleeps,
               remove_calls>>
split_vars == <<st_text, st_max_length, st_chunks, st_pc>>
vars == <<pipe_vars, split_vars>>

(***************************************************************************)
(* Bounds of the model.                                                    *)
(***************************************************************************)
\* longest text handed to the separate _split_text call
MaxTextLen == 5
\* largest max_length handed to the separate _split_text call
MaxMaxLength == 4

(***************************************************************************)
(* Python values.                                                          *)
(***************************************************************************)
\* None: a one-element sequence that no text equals (texts hold single characters)
None == <<"None">>
\* a local that has not been assigned yet
NotYet == <<"NotYet">>

\* the characters str.strip() removes (those that occur in the model's texts)
IsSpace(c) == c \in {" ", "\n"}

\* truthiness of an Optional[str]: None and "" are falsy
Truthy(v) == v # None /\ v # <<>>

(***************************************************************************)
(* str methods used by _split_text and translate_text.                     *)
(***************************************************************************)
\* text.replace('\n', ' ')
replace_newlines(text) ==
    [k \in 1..Len(text) |-> IF text[k] = "\n" THEN " " ELSE text[k]]

\* the positions where the separator '. ' starts; two occurrences never overlap
\* (the second character of one is ' ', the first of the next is '.')
SepPositions(s) == {p \in 1..(Len(s) - 1) : s[p] = "." /\ s[p + 1] = " "}

\* the n-th smallest element of a finite set of integers
NthSmallest(S, n) == CHOOSE p \in S : Cardinality({q \in S : q < p}) = n - 1

\* s.split('. '): the pieces between the separators, in order (always >= 1 piece)
split_on_sep(s) ==
    LET P == SepPositions(s)
        n == Cardinality(P)
        left(k) == IF k = 1 THEN 1 ELSE NthSmallest(P, k - 1) + 2
        right(k) == IF k = n + 1 THEN Len(s) ELSE NthSmallest(P, k) - 1
    IN  [k \in 1..(n + 1) |-> SubSeq(s, left(k), right(k))]

\* s.strip(): without leading and trailing whitespace
\* (a ranges over the one value of s, so that s is evaluated once)
strip(s) ==
    CHOOSE r \in
        {LET keep == {k \in 1..Len(a) : ~IsSpace(a[k])}
         IN  IF keep = {} THEN <<>>
             ELSE SubSeq(a, CHOOSE k \in keep : \A m \in keep : k <= m,
                            CHOOSE k \in keep : \A m \in keep : k >= m) :
            a \in {s}} : TRUE

\* sep.join(parts)
RECURSIVE join(_, _)
join(sep, parts) ==
    IF parts = <<>> THEN <<>>
    ELSE IF Len(parts) = 1 THEN parts[1]
    ELSE parts[1] \o sep \o join(sep, Tail(parts))

\* the sentence terminator _split_text appends after every sentence
DotSpace == <<".", " ">>

(***************************************************************************)
(* _split_text                                                             *)
(***************************************************************************)
\* the test of line 212 with <= written for <
FitsMutantLeq(current_chunk, sentence, max_length) ==
    Len(current_chunk \o sentence) <= max_length

\* the test of line 212: len(current_chunk + sentence) < max_length
Fits(current_chunk, sentence, max_length) ==
    Len(current_chunk \o sentence) < max_length

\* lines 211-217 without lines 215-216: the full chunk is not appended
split_step_mutant_drop(acc, sentence, max_length) ==
    IF Fits(acc.current_chunk, sentence, max_length)
    THEN [chunks |-> acc.chunks,
          current_chunk |-> acc.current_chunk \o sentence \o DotSpace]
    ELSE [chunks |-> acc.chunks,
          current_chunk |-> sentence \o DotSpace]

\* lines 211-217 with the sentence that does not fit appended before the flush
split_step_mutant_merge(acc, sentence, max_length) ==
    IF Fits(acc.current_chunk, sentence, max_length)
    THEN [chunks |-> acc.chunks,
          current_chunk |-> acc.current_chunk \o sentence \o DotSpace]
    ELSE [chunks |-> Append(acc.chunks,
                            strip(acc.current_chunk \o sentence \o DotSpace)),
          current_chunk |-> <<>>]

\* one iteration of the for loop, lines 211-217, on the pair (chunks, current_chunk)
split_step(acc, sentence, max_length) ==
    IF Fits(acc.current_chunk, sentence, max_length)
    THEN [chunks |-> acc.chunks,
          current_chunk |-> acc.current_chunk \o sentence \o DotSpace]
    ELSE [chunks |-> IF acc.current_chunk # <<>>
                     THEN Append(acc.chunks, strip(acc.current_chunk))
                     ELSE acc.chunks,
          current_chunk |-> sentence \o DotSpace]

\* the for loop over sentences[k..], lines 211-217
\* (next ranges over the one value of the iteration, evaluated once)
RECURSIVE split_loop(_, _, _, _)
split_loop(sentences, k, acc, max_length) ==
    IF k > Len(sentences) THEN acc
    ELSE CHOOSE r \in {split_loop(sentences, k + 1, next, max_length) :
                          next \in {split_step(acc, sentences[k], max_length)}} :
             TRUE

\* the sentences of line 207
sentences_of(text) == split_on_sep(replace_newlines(text))

\* _split_text(text, max_length), lines 205-222
split_text(text, max_length) ==
    LET run(sentences) ==
            split_loop(sentences, 1,
                       [chunks |-> <<>>, current_chunk |-> <<>>], max_length)
        \* lines 219-222
        finish(acc) ==
            IF acc.current_chunk # <<>>
            THEN Append(acc.chunks, strip(acc.current_chunk))
            ELSE acc.chunks
    IN  CHOOSE r \in {finish(acc) :
                         acc \in {run(s) : s \in {sentences_of(text)}}} : TRUE

(***************************************************************************)
(* The separate call of _split_text: its arguments are drawn from all      *)
(* texts over Alphabet up to MaxTextLen characters, plus the example text  *)
(* of the documentation, and all bounds 1..MaxMaxLength plus 20.           *)
(***************************************************************************)
Alphabet == {"a", ".", " ", "\n"}

SmallTexts == UNION {[1..n -> Alphabet] : n \in 0..MaxTextLen}

\* "Hello world. This is a test. Short."
HelloText ==
    <<"H","e","l","l","o"," ","w","o","r","l","d","."," ",
      "T","h","i","s"," ","i","s"," ","a"," ","t","e","s","t","."," ",
      "S","h","o","r","t",".">>

SplitTexts == SmallTexts \cup {HelloText}
SplitMaxLengths == (1..MaxMaxLength) \cup {20}

SplitIdle ==
    /\ st_text = <<>>
    /\ st_max_length = 1
    /\ st_chunks = NotYet
    /\ st_pc = "unused"

SplitInputs ==
    /\ st_text \in SplitTexts
    /\ st_max_length \in SplitMaxLengths
    /\ st_chunks = NotYet
    /\ st_pc = "call"

\* chunks = self._split_text(text, max_length)
SplitCall ==
    /\ st_pc = "call"
    /\ st_chunks' = split_text(st_text, st_max_length)
    /\ st_pc' = "return"
    /\ UNCHANGED <<st_text, st_max_length, pipe_vars>>

(***************************************************************************)
(* The inputs of one run: what the collaborators may answer.               *)
(***************************************************************************)
\* length of the long sentences of the model's transcripts
BlockLen == 300

\* the sentence made of n copies of the character c
Block(c, n) == [k \in 1..n |-> c]

\* result["text"] of whisper, before .strip(): empty, blank, one short sentence,
\* two short sentences, and texts of two and three sentences that do not fit
\* into one chunk of 500 characters
WhisperTexts ==
    { <<>>,
      <<" ", "\n">>,
      <<" ", "H", "i">>,
      <<"a", ".", " ", "b", ".", " ">>,
      Block("a", BlockLen) \o DotSpace \o Block("b", BlockLen),
      Block("a", BlockLen) \o DotSpace \o Block("b", BlockLen)
          \o DotSpace \o Block("c", BlockLen) \o <<".">> }

\* the texts a direct caller hands to translate_text
DirectTexts ==
    { <<>>,
      <<"H", "i">>,
      <<"H", "i", ".">>,
      <<"a", "\n", "b">>,
      <<" ", "a", ".", " ", " ", "b">>,
      Block("a", BlockLen) \o DotSpace \o Block("b", BlockLen) }

\* response['message']['content'] of a successful ollama.chat call
Replies == { <<" ", "k", "o", "\n">>, <<>> }

\* the reply recorded for an ollama.chat call that raised
Raise == <<"Raise">>

\* max_retries = 3, line 142
max_retries == 3
\* max_length of the _split_text call of translate_text, line 138
TranslateMaxLength == 500
\* max_length of the _split_text call of text_to_speech, line 230
TtsMaxLength == 500

\* the stage methods of process_youtube_video, in the order of its body
Stages == <<"extract_audio", "transcribe_audio", "translate_text", "text_to_speech">>

(***************************************************************************)
(* Init: the object after __init__; _setup_ollama_model left ollama_model  *)
(* set to a model name or to None (lines 44, 58, 62, 70).                  *)
(***************************************************************************)
PipeInit ==
    /\ ollama_model \in {<<"gemma3:4b">>, None}
    /\ pc = "idle"
    /\ entry = "none"
    /\ audio_file = NotYet
    /\ english_text = NotYet
    /\ korean_text = NotYet
    /\ output_file = NotYet
    /\ result = "none"
    /\ chunks = <<>>
    /\ i = 0
    /\ retry_count = 0
    /\ translated = None
    /\ translated_chunks = <<>>
    /\ tts_chunks = <<>>
    /\ tts_i = 0
    /\ audio_files = <<>>
    /\ tts_saved = <<>>
    /\ tts_raised = 0
    /\ temp_audio = "absent"
    /\ translated_file = None
    /\ invoked = <<>>
    /\ returned_empty = {}
    /\ exchanges = <<>>
    /\ sleeps = <<>>
    /\ remove_calls = 0

Init == PipeInit /\ SplitIdle

SplitInit == PipeInit /\ SplitInputs

translate_locals == <<chunks, i, retry_count, translated, translated_chunks>>
tts_locals == <<tts_chunks, tts_i, audio_files, tts_saved, tts_raised>>
chat_trace == <<exchanges, sleeps>>

(***************************************************************************)
(* process_youtube_video, stage 1 and 2                                    *)
(***************************************************************************)
\* lines 259-262: audio_file = self.extract_audio(url); if not audio_file: return False
\* extract_audio returns the path of the wav file it found (line 97) or None
\* (lines 100, 104)
ExtractAudio ==
    /\ pc = "idle"
    /\ entry' = "process"
    /\ invoked' = Append(invoked, "extract_audio")
    /\ \/ /\ audio_file' = <<"audio/temp_audio.wav">>
          /\ temp_audio' = "present"
          /\ pc' = "transcribe"
          /\ UNCHANGED <<result, returned_empty>>
       \/ /\ audio_file' = None
          /\ temp_audio' = "absent"
          /\ returned_empty' = returned_empty \cup {"extract_audio"}
          /\ result' = "False"
          /\ pc' = "return_262"
    /\ UNCHANGED <<ollama_model, english_text, korean_text, output_file,
                   translate_locals, tts_locals, translated_file, chat_trace,
                   remove_calls, split_vars>>

\* lines 265-267 without the test of line 266
AfterTranscribeMutantNoCheck(text) ==
    /\ english_text' = text
    /\ returned_empty' = IF Truthy(text) THEN returned_empty
                         ELSE returned_empty \cup {"transcribe_audio"}
    /\ pc' = "translate"
    /\ UNCHANGED result

\* what the caller of transcribe_audio does with its value, lines 266-267
AfterTranscribe(text) ==
    /\ english_text' = text
    /\ IF Truthy(text)
       THEN /\ pc' = "translate"
            /\ UNCHANGED <<result, returned_empty>>
       ELSE /\ returned_empty' = returned_empty \cup {"transcribe_audio"}
            /\ result' = "False"
            /\ pc' = "return_267"

\* lines 264-267: english_text = self.transcribe_audio(audio_file).
\* transcribe_audio returns result["text"].strip() (lines 111-122) or None when
\* the model or the write of transcribed_text.txt raises (lines 124-126)
TranscribeAudio ==
    /\ pc = "transcribe"
    /\ invoked' = Append(invoked, "transcribe_audio")
    /\ \/ \E raw \in WhisperTexts : AfterTranscribe(strip(raw))
       \/ AfterTranscribe(None)
    /\ UNCHANGED <<ollama_model, entry, audio_file, korean_text, output_file,
                   translate_locals, tts_locals, temp_audio, translated_file,
                   chat_trace, remove_calls, split_vars>>

\* a direct call converter.translate_text(text)
CallTranslate ==
    /\ pc = "idle"
    /\ entry' = "translate"
    /\ \E text \in DirectTexts : english_text' = text
    /\ pc' = "translate"
    /\ UNCHANGED <<ollama_model, audio_file, korean_text, output_file, result,
                   translate_locals, tts_locals, temp_audio, translated_file,
                   invoked, returned_empty, chat_trace, remove_calls, split_vars>>

(***************************************************************************)
(* translate_text                                                          *)
(***************************************************************************)
\* translate_text returns value: to the direct caller, or to line 270 of
\* process_youtube_video, which returns False when the value is falsy (271-272)
TranslateReturn(value) ==
    /\ korean_text' = value
    /\ IF entry = "translate"
       THEN /\ pc' = "returned"
            /\ UNCHANGED <<result, returned_empty>>
       ELSE IF Truthy(value)
       THEN /\ pc' = "tts"
            /\ UNCHANGED <<result, returned_empty>>
       ELSE /\ returned_empty' = returned_empty \cup {"translate_text"}
            /\ result' = "False"
            /\ pc' = "return_272"

\* lines 133-135 returning the text trimmed
TranslatePassthroughMutantStrip ==
    /\ pc = "translate"
    /\ ollama_model = None
    /\ invoked' = Append(invoked, "translate_text")
    /\ TranslateReturn(strip(english_text))
    /\ UNCHANGED <<ollama_model, entry, audio_file, english_text, output_file,
                   translate_locals, tts_locals, temp_audio, translated_file,
                   chat_trace, remove_calls, split_vars>>

\* lines 133-135: no model, the text is returned as it is
TranslatePassthrough ==
    /\ pc = "translate"
    /\ ollama_model = None
    /\ invoked' = Append(invoked, "translate_text")
    /\ TranslateReturn(english_text)
    /\ UNCHANGED <<ollama_model, entry, audio_file, english_text, output_file,
                   translate_locals, tts_locals, temp_audio, translated_file,
                   chat_trace, remove_calls, split_vars>>

\* lines 138-139: chunks = self._split_text(english_text, max_length=500)
TranslateSplit ==
    /\ pc = "translate"
    /\ ollama_model # None
    /\ invoked' = Append(invoked, "translate_text")
    /\ chunks' = split_text(english_text, TranslateMaxLength)
    /\ translated_chunks' = <<>>
    /\ i' = 1
    /\ sleeps' = [k \in 1..Len(chunks') |-> 0]
    /\ pc' = "for"
    /\ UNCHANGED <<ollama_model, entry, audio_file, english_text, korean_text,
                   output_file, result, retry_count, translated, tts_locals,
                   temp_audio, translated_file, returned_empty, exchanges,
                   remove_calls, split_vars>>

\* lines 141-144 with retry_count = 0 moved out of the for loop
ChunkBeginMutantSharedBudget ==
    /\ pc = "for"
    /\ i <= Len(chunks)
    /\ translated' = None
    /\ pc' = "while"
    /\ UNCHANGED <<ollama_model, entry, audio_file, english_text, korean_text,
                   output_file, result, chunks, i, retry_count, translated_chunks,
                   tts_locals, temp_audio, translated_file, invoked,
                   returned_empty, chat_trace, remove_calls, split_vars>>

\* lines 141-144: the next chunk of the for loop, with its own retry_count
ChunkBegin ==
    /\ pc = "for"
    /\ i <= Len(chunks)
    /\ retry_count' = 0
    /\ translated' = None
    /\ pc' = "while"
    /\ UNCHANGED <<ollama_model, entry, audio_file, english_text, korean_text,
                   output_file, result, chunks, i, translated_chunks, tts_locals,
                   temp_audio, translated_file, invoked, returned_empty,
                   chat_trace, remove_calls, split_vars>>

\* the loop test of line 146 giving up one attempt early
WhileTestMutantPremature == retry_count < max_retries - 1 /\ translated = None

\* the loop test of line 146 allowing one attempt more
WhileTestMutantOneMore == retry_count <= max_retries /\ translated = None

\* the loop test of line 146
WhileTest == retry_count < max_retries /\ translated = None

\* lines 147-174: ollama.chat answers; translated = content.strip(); break
ChatReplies ==
    /\ pc = "while"
    /\ WhileTest
    /\ \E reply \in Replies :
          /\ exchanges' = Append(exchanges, [chunk |-> i, reply |-> reply])
          /\ translated' = strip(reply)
    /\ pc' = "after_while"
    /\ UNCHANGED <<ollama_model, entry, audio_file, english_text, korean_text,
                   output_file, result, chunks, i, retry_count, translated_chunks,
                   tts_locals, temp_audio, translated_file, invoked,
                   returned_empty, sleeps, remove_calls, split_vars>>

\* the test of line 179 left out: sleep after every failed attempt
SleepTestMutantAlways(count) == count <= max_retries

\* the test of line 179: sleep before the next attempt
SleepTest(count) == count < max_retries

\* lines 147-181: ollama.chat (or reading its response) raises; retry_count += 1
ChatRaises ==
    /\ pc = "while"
    /\ WhileTest
    /\ exchanges' = Append(exchanges, [chunk |-> i, reply |-> Raise])
    /\ retry_count' = retry_count + 1
    /\ pc' = IF SleepTest(retry_count') THEN "sleep" ELSE "while"
    /\ UNCHANGED <<ollama_model, entry, audio_file, english_text, korean_text,
                   output_file, result, chunks, i, translated, translated_chunks,
                   tts_locals, temp_audio, translated_file, invoked,
                   returned_empty, sleeps, remove_calls, split_vars>>

\* line 181: time.sleep(2)
Sleep ==
    /\ pc = "sleep"
    /\ sleeps' = [sleeps EXCEPT ![i] = @ + 1]
    /\ pc' = "while"
    /\ UNCHANGED <<ollama_model, entry, audio_file, english_text, korean_text,
                   output_file, result, translate_locals, tts_locals, temp_audio,
                   translated_file, invoked, returned_empty, exchanges,
                   remove_calls, split_vars>>

\* line 146: the loop test fails, the while loop is left
WhileExit ==
    /\ pc = "while"
    /\ ~WhileTest
    /\ pc' = "after_while"
    /\ UNCHANGED <<ollama_model, entry, audio_file, english_text, korean_text,
                   output_file, result, translate_locals, tts_locals, temp_audio,
                   translated_file, invoked, returned_empty, chat_trace,
                   remove_calls, split_vars>>

\* lines 183-187 with nothing kept for a chunk that was not translated
ChunkOutcomeMutantDrop(t, chunk) == IF t # None THEN t ELSE <<>>

\* lines 183-187: what is appended to translated_chunks for the chunk
ChunkOutcome(t, chunk) == IF t # None THEN t ELSE chunk

\* lines 183-187 and the step of the for loop
ChunkEnd ==
    /\ pc = "after_while"
    /\ translated_chunks' =
           Append(translated_chunks, ChunkOutcome(translated, chunks[i]))
    /\ i' = i + 1
    /\ pc' = "for"
    /\ UNCHANGED <<ollama_model, entry, audio_file, english_text, korean_text,
                   output_file, result, chunks, retry_count, translated,
                   tts_locals, temp_audio, translated_file, invoked,
                   returned_empty, chat_trace, remove_calls, split_vars>>

\* line 189: korean_text = " ".join(translated_chunks)
JoinChunks(parts) == join(<<" ">>, parts)

\* lines 189-199 without the write of lines 192-194
TranslateFinishMutantNoWrite ==
    /\ pc = "for"
    /\ i > Len(chunks)
    /\ TranslateReturn(JoinChunks(translated_chunks))
    /\ UNCHANGED <<ollama_model, entry, audio_file, english_text, output_file,
                   translate_locals, tts_locals, temp_audio, translated_file,
                   invoked, chat_trace, remove_calls, split_vars>>

\* lines 189-199: join, write text/translated_text.txt, return korean_text
TranslateFinish ==
    /\ pc = "for"
    /\ i > Len(chunks)
    /\ translated_file' = JoinChunks(translated_chunks)
    /\ TranslateReturn(JoinChunks(translated_chunks))
    /\ UNCHANGED <<ollama_model, entry, audio_file, english_text, output_file,
                   translate_locals, tts_locals, temp_audio, invoked, chat_trace,
                   remove_calls, split_vars>>

\* lines 192-194 raise (the file cannot be opened or written): lines 201-203
\* return None
TranslateWriteRaises ==
    /\ pc = "for"
    /\ i > Len(chunks)
    /\ TranslateReturn(None)
    /\ UNCHANGED <<ollama_model, entry, audio_file, english_text, output_file,
                   translate_locals, tts_locals, temp_audio, translated_file,
                   invoked, chat_trace, remove_calls, split_vars>>

(***************************************************************************)
(* text_to_speech                                                          *)
(***************************************************************************)
\* f"{i:03d}": the index in three decimal digits
Digits3(k) == <<ToString(k \div 100), ToString((k \div 10) % 10), ToString(k % 10)>>

\* line 244 with one file name for every chunk
ChunkFileMutantSame(k) == <<"output/chunk_">> \o Digits3(0) \o <<".mp3">>

\* str(self.output_dir / f"chunk_{i:03d}.mp3"), i counted from 0 (line 244)
ChunkFile(k) == <<"output/chunk_">> \o Digits3(k) \o <<".mp3">>

\* str(self.output_dir / output_filename), line 235
OutputPath == <<"output/korean_audio.mp3">>

\* lines 275-277 without the test of line 276
TtsReturnMutantNoCheck(value) ==
    /\ output_file' = value
    /\ returned_empty' = IF Truthy(value) THEN returned_empty
                         ELSE returned_empty \cup {"text_to_speech"}
    /\ pc' = "cleanup"
    /\ UNCHANGED result

\* text_to_speech returns value to line 275 of process_youtube_video, which
\* returns False when the value is falsy (276-277)
TtsReturn(value) ==
    /\ output_file' = value
    /\ IF Truthy(value)
       THEN /\ pc' = "cleanup"
            /\ UNCHANGED <<result, returned_empty>>
       ELSE /\ returned_empty' = returned_empty \cup {"text_to_speech"}
            /\ result' = "False"
            /\ pc' = "return_277"

\* lines 230-232: chunks = self._split_text(korean_text, max_length=500)
TtsSplit ==
    /\ pc = "tts"
    /\ invoked' = Append(invoked, "text_to_speech")
    /\ tts_chunks' = split_text(korean_text, TtsMaxLength)
    /\ tts_i' = 1
    /\ audio_files' = <<>>
    /\ pc' = IF Len(tts_chunks') = 1 THEN "tts_single" ELSE "tts_for"
    /\ UNCHANGED <<ollama_model, entry, audio_file, english_text, korean_text,
                   output_file, result, translate_locals, tts_saved, tts_raised,
                   temp_audio, translated_file, returned_empty, chat_trace,
                   remove_calls, split_vars>>

\* lines 234-238: one chunk, the whole korean_text is synthesized into one file
TtsSingle ==
    /\ pc = "tts_single"
    /\ tts_saved' = Append(tts_saved, [file |-> OutputPath, text |-> korean_text])
    /\ TtsReturn(OutputPath)
    /\ UNCHANGED <<ollama_model, entry, audio_file, english_text, korean_text,
                   translate_locals, tts_chunks, tts_i, audio_files, tts_raised,
                   temp_audio, translated_file, invoked, chat_trace,
                   remove_calls, split_vars>>

\* lines 242-246: one iteration of the for loop, the chunk is saved to its file
TtsChunk ==
    /\ pc = "tts_for"
    /\ tts_i <= Len(tts_chunks)
    /\ tts_saved' = Append(tts_saved, [file |-> ChunkFile(tts_i - 1),
                                       text |-> tts_chunks[tts_i]])
    /\ audio_files' = Append(audio_files, ChunkFile(tts_i - 1))
    /\ tts_i' = tts_i + 1
    /\ UNCHANGED <<ollama_model, pc, entry, audio_file, english_text, korean_text,
                   output_file, result, translate_locals, tts_chunks, tts_raised,
                   temp_audio, translated_file, invoked, returned_empty,
                   chat_trace, remove_calls, split_vars>>

\* lines 248-249: return audio_files[0]; with no chunk at all the index raises
\* and lines 251-253 return None
TtsMultiReturn ==
    /\ pc = "tts_for"
    /\ tts_i > Len(tts_chunks)
    /\ TtsReturn(IF audio_files = <<>> THEN None ELSE audio_files[1])
    /\ UNCHANGED <<ollama_model, entry, audio_file, english_text, korean_text,
                   translate_locals, tts_locals, temp_audio, translated_file,
                   invoked, chat_trace, remove_calls, split_vars>>

\* a raise of gTTS caught inside the loop: the chunk is skipped, the loop goes on
TtsRaisesMutantSkip ==
    /\ \/ pc = "tts_single"
       \/ pc = "tts_for" /\ tts_i <= Len(tts_chunks)
    /\ tts_raised' = tts_i
    /\ tts_i' = tts_i + 1
    /\ pc' = "tts_for"
    /\ UNCHANGED <<ollama_model, entry, audio_file, english_text, korean_text,
                   output_file, result, translate_locals, tts_chunks,
                   audio_files, tts_saved, temp_audio, translated_file, invoked,
                   returned_empty, chat_trace, remove_calls, split_vars>>

\* lines 251-253 removing the temporary audio file before returning None
TtsRaisesMutantCleanup ==
    /\ \/ pc = "tts_single"
       \/ pc = "tts_for" /\ tts_i <= Len(tts_chunks)
    /\ tts_raised' = tts_i
    /\ remove_calls' = remove_calls + 1
    /\ temp_audio' = "removed"
    /\ TtsReturn(None)
    /\ UNCHANGED <<ollama_model, entry, audio_file, english_text, korean_text,
                   translate_locals, tts_chunks, tts_i, audio_files, tts_saved,
                   translated_file, invoked, chat_trace, split_vars>>

\* gTTS(...) or tts.save(...) raises on the current chunk: lines 251-253 return None
TtsRaises ==
    /\ \/ pc = "tts_single"
       \/ pc = "tts_for" /\ tts_i <= Len(tts_chunks)
    /\ tts_raised' = tts_i
    /\ TtsReturn(None)
    /\ UNCHANGED <<ollama_model, entry, audio_file, english_text, korean_text,
                   translate_locals, tts_chunks, tts_i, audio_files, tts_saved,
                   temp_audio, translated_file, invoked, chat_trace,
                   remove_calls, split_vars>>

(***************************************************************************)
(* process_youtube_video, the end: lines 279-289                           *)
(***************************************************************************)
\* lines 283-289 with the error of os.remove not swallowed
CleanupMutantFailOnError ==
    /\ pc = "cleanup"
    /\ remove_calls' = remove_calls + 1
    /\ \/ temp_audio' = "removed" /\ result' = "True"
       \/ temp_audio' = temp_audio /\ result' = "False"
    /\ pc' = "return_289"
    /\ UNCHANGED <<ollama_model, entry, audio_file, english_text, korean_text,
                   output_file, translate_locals, tts_locals, translated_file,
                   invoked, returned_empty, chat_trace, split_vars>>

\* os.remove(audio_file) removes the file, or raises and the except passes;
\* then return True
Cleanup ==
    /\ pc = "cleanup"
    /\ remove_calls' = remove_calls + 1
    /\ \/ temp_audio' = "removed"
       \/ temp_audio' = temp_audio
    /\ result' = "True"
    /\ pc' = "return_289"
    /\ UNCHANGED <<ollama_model, entry, audio_file, english_text, korean_text,
                   output_file, translate_locals, tts_locals, translated_file,
                   invoked, returned_empty, chat_trace, split_vars>>

(***************************************************************************)
(* The specifications.                                                     *)
(***************************************************************************)
Next ==
    \/ ExtractAudio
    \/ TranscribeAudio
    \/ CallTranslate
    \/ TranslatePassthrough
    \/ TranslateSplit
    \/ ChunkBegin
    \/ ChatReplies
    \/ ChatRaises
    \/ Sleep
    \/ WhileExit
    \/ ChunkEnd
    \/ TranslateFinish
    \/ TranslateWriteRaises
    \/ TtsSplit
    \/ TtsSingle
    \/ TtsChunk
    \/ TtsMultiReturn
    \/ TtsRaises
    \/ Cleanup

\* one object, one call of process_youtube_video or of translate_text
Spec == Init /\ [][Next]_vars

SplitNext == SplitCall

\* one call of _split_text on arbitrary arguments
SplitSpec == SplitInit /\ [][SplitNext]_vars

\* the program is one thread: while a step is possible, a step is taken (every
\* collaborator call returns or raises)
FairSpec == Spec /\ WF_vars(Next)

(***************************************************************************)
(* Observations used by the properties.                                    *)
(***************************************************************************)
\* the ollama.chat calls made for chunk c, in call order
ExchangesFor(c) == SelectSeq(exchanges, LAMBDA e : e.chunk = c)

\* the number of ollama.chat calls for chunk c that raised
Failures(c) == Len(SelectSeq(exchanges, LAMBDA e : e.chunk = c /\ e.reply = Raise))

\* the chunks whose outcome has been appended to translated_chunks
Settled == 1..Len(translated_chunks)

\* translate_text has returned
TranslateReturned == korean_text # NotYet

\* the separate _split_text call has returned
SplitReturned == st_pc = "return"

\* s.lstrip()
lstrip(s) ==
    LET keep == {k \in 1..Len(s) : ~IsSpace(s[k])}
    IN  IF keep = {} THEN <<>>
        ELSE SubSeq(s, CHOOSE k \in keep : \A m \in keep : k <= m, Len(s))

\* the sentences a chunk holds: the chunk with the trimmed trailing space put
\* back, cut at every '. '
ChunkSentences(chunk) ==
    LET parts == split_on_sep(chunk \o <<" ">>)
    IN  SubSeq(parts, 1, Len(parts) - 1)

\* the concatenation of a sequence of sequences
RECURSIVE Flatten(_)
Flatten(seqs) == IF seqs = <<>> THEN <<>> ELSE seqs[1] \o Flatten(Tail(seqs))

\* the chunk is one sentence of the text that is alone at least max_length long
OversizedAlone(chunk, text, max_length) ==
    \E k \in DOMAIN sentences_of(text) :
        /\ Len(sentences_of(text)[k]) >= max_length
        /\ chunk = strip(sentences_of(text)[k] \o DotSpace)

(***************************************************************************)
(* C1: with max_retries = 3, a chunk whose requests raised fewer than      *)
(* max_retries times (in particular exactly max_retries - 1 times) ends    *)
(* with the reply of its last request, trimmed, as its outcome; a chunk    *)
(* whose requests raised max_retries times has its own text as its outcome *)
(* and got exactly max_retries requests.                                   *)
(***************************************************************************)
C1_RetryCeiling ==
    /\ \A c \in 1..Len(chunks) :
          /\ Failures(c) <= max_retries
          /\ Len(ExchangesFor(c)) <= max_retries
    /\ \A c \in Settled :
          LET E == ExchangesFor(c)
          IN  IF Failures(c) < max_retries
              THEN /\ Len(E) = Failures(c) + 1
                   /\ E[Len(E)].reply # Raise
                   /\ translated_chunks[c] = strip(E[Len(E)].reply)
              ELSE /\ Len(E) = max_retries
                   /\ translated_chunks[c] = chunks[c]

\* a chunk answered on its last attempt and a chunk that used up its attempts
C1_Witness ==
    /\ Len(translated_chunks) >= 2
    /\ \E c \in Settled :
          /\ Failures(c) = max_retries - 1
          /\ translated_chunks[c] = <<"k", "o">>
    /\ \E c \in Settled :
          /\ Failures(c) = max_retries
          /\ translated_chunks[c] = chunks[c]

(***************************************************************************)
(* C2: with a model configured and every request raising, translate_text   *)
(* returns its input text unchanged.                                       *)
(***************************************************************************)
C2_AllFailPassthrough ==
    ( /\ TranslateReturned
      /\ korean_text # None
      /\ ollama_model # None
      /\ \A k \in DOMAIN exchanges : exchanges[k].reply = Raise )
    => korean_text = english_text

(***************************************************************************)
(* C3: a stage of process_youtube_video that returned an empty or missing  *)
(* value ends the run with False at that stage's return statement, and no  *)
(* later stage has been called.                                            *)
(***************************************************************************)
FailedPcOf(k) == <<"return_262", "return_267", "return_272", "return_277">>[k]

C3_ShortCircuit ==
    \A k \in DOMAIN Stages :
        Stages[k] \in returned_empty
        => /\ pc = FailedPcOf(k)
           /\ result = "False"
           /\ invoked = SubSeq(Stages, 1, k)

\* transcription returned the empty text
C3_Witness ==
    /\ "transcribe_audio" \in returned_empty
    /\ english_text = <<>>
    /\ pc = "return_267"

(***************************************************************************)
(* C4: with a model configured, the text translate_text returns is the     *)
(* single-space join of one outcome per chunk, in chunk order; outcome c   *)
(* is the trimmed reply to a request for chunk c, or the chunk's own text, *)
(* and it is the chunk's own text only after max_retries requests for that *)
(* chunk itself have raised.                                               *)
(***************************************************************************)
\* the outcome of chunk c, read from the calls made for it
OutcomeOf(c) ==
    LET E == ExchangesFor(c)
    IN  IF E # <<>> /\ E[Len(E)].reply # Raise
        THEN strip(E[Len(E)].reply)
        ELSE chunks[c]

C4_OrderedJoin ==
    /\ \A c \in Settled :
          /\ translated_chunks[c] = OutcomeOf(c)
          /\ Len(ExchangesFor(c)) >= 1
          /\ translated_chunks[c] = chunks[c] => Failures(c) = max_retries
    /\ ( TranslateReturned /\ korean_text # None /\ ollama_model # None )
       => /\ Len(translated_chunks) = Len(chunks)
          /\ korean_text = JoinChunks([c \in 1..Len(chunks) |-> OutcomeOf(c)])

\* three chunks: the first answered at once, the second fell back, the third
\* answered on its last attempt
C4_Witness ==
    /\ TranslateReturned
    /\ korean_text # None
    /\ Len(chunks) = 3
    /\ Failures(1) = 0
    /\ Failures(2) = max_retries
    /\ Failures(3) = max_retries - 1
    /\ korean_text = <<"k", "o", " ">> \o chunks[2] \o <<" ", "k", "o">>

(***************************************************************************)
(* C5: in a run with a model configured, requests that raise do not end    *)
(* the run at the translation stage: the run ends at line 272 only when    *)
(* the write of the translated text raised or every chunk was answered by  *)
(* an empty reply; once a chunk has fallen back to its own text and the    *)
(* text is returned, the run goes on to text_to_speech with that text.     *)
(***************************************************************************)
FellBack(c) == c \in Settled /\ Failures(c) = max_retries

C5_FailuresDoNotAbort ==
    /\ ( pc = "return_272" /\ ollama_model # None )
       => \/ korean_text = None
          \/ \A c \in 1..Len(chunks) :
                ~FellBack(c) /\ translated_chunks[c] = <<>>
    /\ ( /\ entry = "process"
         /\ TranslateReturned
         /\ korean_text # None
         /\ \E c \in 1..Len(chunks) : FellBack(c) )
       => /\ pc # "return_272"
          /\ "translate_text" \notin returned_empty
          /\ pc = "tts" \/ invoked[Len(invoked)] = "text_to_speech"
          /\ \A c \in 1..Len(chunks) :
                FellBack(c) => translated_chunks[c] = chunks[c]

\* every request of the run raised and text_to_speech was entered with the
\* chunks themselves
C5_Witness ==
    /\ entry = "process"
    /\ Len(chunks) = 2
    /\ \A c \in 1..2 : FellBack(c)
    /\ \A k \in DOMAIN exchanges : exchanges[k].reply = Raise
    /\ invoked[Len(invoked)] = "text_to_speech"
    /\ korean_text = JoinChunks(chunks)

(***************************************************************************)
(* C6: every chunk _split_text returns has length < max_length, except a   *)
(* chunk that is a single sentence already at least max_length long.       *)
(***************************************************************************)
C6_ChunkBelowBound ==
    SplitReturned
    => \A c \in DOMAIN st_chunks :
          \/ Len(st_chunks[c]) < st_max_length
          \/ OversizedAlone(st_chunks[c], st_text, st_max_length)

(***************************************************************************)
(* C6 as amended: every chunk _split_text returns has length at most       *)
(* max_length, except a chunk that is a single sentence already at least   *)
(* max_length long.                                                        *)
(***************************************************************************)
C6_ChunkAtMostBound ==
    SplitReturned
    => \A c \in DOMAIN st_chunks :
          \/ Len(st_chunks[c]) <= st_max_length
          \/ OversizedAlone(st_chunks[c], st_text, st_max_length)

\* a chunk of exactly max_length characters followed by an oversized sentence
C6_Witness ==
    /\ SplitReturned
    /\ Len(st_chunks) = 2
    /\ Len(st_chunks[1]) = st_max_length
    /\ ~OversizedAlone(st_chunks[1], st_text, st_max_length)
    /\ Len(st_chunks[2]) > st_max_length

(***************************************************************************)
(* C7: the sentences held by the chunks, read in chunk order, are the      *)
(* sentences of the newline-normalized text split on '. ', one for one and *)
(* in the same order; a sentence differs from its original at most by the  *)
(* leading whitespace trimmed at the start of a chunk.                     *)
(***************************************************************************)
C7_SentencesPreserved ==
    SplitReturned
    => LET held == Flatten([c \in DOMAIN st_chunks |-> ChunkSentences(st_chunks[c])])
           orig == sentences_of(st_text)
       IN  /\ Len(held) = Len(orig)
           /\ \A k \in DOMAIN orig :
                 held[k] = orig[k] \/ held[k] = lstrip(orig[k])

\* three sentences in two chunks, the first chunk holding two of them
C7_Witness ==
    /\ SplitReturned
    /\ Len(sentences_of(st_text)) = 3
    /\ Len(st_chunks) = 2
    /\ Len(ChunkSentences(st_chunks[1])) = 2
    /\ \E k \in 1..3 : sentences_of(st_text)[k] # <<>>

(***************************************************************************)
(* C8: _split_text of the empty text returns no chunk.                     *)
(***************************************************************************)
C8_EmptyTextNoChunks ==
    ( SplitReturned /\ st_text = <<>> ) => st_chunks = <<>>

(***************************************************************************)
(* C9: _split_text("Hello world. This is a test. Short.", 20) returns      *)
(* ["Hello world.", "This is a test.", "Short."].                          *)
(***************************************************************************)
HelloChunks ==
    << <<"H","e","l","l","o"," ","w","o","r","l","d",".">>,
       <<"T","h","i","s"," ","i","s"," ","a"," ","t","e","s","t",".">>,
       <<"S","h","o","r","t",".">> >>

C9_HelloExample ==
    ( SplitReturned /\ st_text = HelloText /\ st_max_length = 20 )
    => st_chunks = HelloChunks

(***************************************************************************)
(* C10: with ollama_model None, translate_text returns its input text      *)
(* unchanged and makes no ollama.chat call.                                *)
(***************************************************************************)
C10_NoModelIdentity ==
    ( TranslateReturned /\ ollama_model = None )
    => /\ korean_text = english_text
       /\ exchanges = <<>>
       /\ chunks = <<>>

\* a direct call without a model, on a text that chunking would change
C10_Witness ==
    /\ TranslateReturned
    /\ ollama_model = None
    /\ entry = "translate"
    /\ english_text = <<"a", "\n", "b">>
    /\ korean_text = english_text

(***************************************************************************)
(* C11: a text_to_speech call that returns a file has saved exactly one    *)
(* file when the text gave one chunk, and exactly n files, one per chunk,  *)
(* in chunk order and all different, when the text gave n > 1 chunks.      *)
(***************************************************************************)
\* text_to_speech has returned a path
TtsReturnedPath == output_file # NotYet /\ output_file # None

C11_SynthesisArity ==
    /\ pc = "tts_for" => Len(tts_saved) = tts_i - 1
    /\ TtsReturnedPath
       => IF Len(tts_chunks) = 1
          THEN /\ Len(tts_saved) = 1
               /\ tts_saved[1].file = output_file
          ELSE /\ Len(tts_saved) = Len(tts_chunks)
               /\ \A k \in DOMAIN tts_saved : tts_saved[k].text = tts_chunks[k]
               /\ Cardinality({tts_saved[k].file : k \in DOMAIN tts_saved})
                      = Len(tts_chunks)
               /\ audio_files = [k \in DOMAIN tts_saved |-> tts_saved[k].file]
               /\ output_file = audio_files[1]

\* three chunks synthesized into three files
C11_Witness ==
    /\ TtsReturnedPath
    /\ Len(tts_chunks) = 3
    /\ Len(tts_saved) = 3
    /\ tts_saved[3].text = tts_chunks[3]

(***************************************************************************)
(* C12: when gTTS raises on a chunk, text_to_speech returns None: nothing  *)
(* is saved for that chunk or for a later one, and the run returns False.  *)
(***************************************************************************)
C12_SynthesisHardFailure ==
    tts_raised # 0
    => /\ output_file = None
       /\ result = "False"
       /\ pc = "return_277"
       /\ Len(tts_saved) = tts_raised - 1
       /\ \A k \in DOMAIN tts_saved : tts_saved[k].text = tts_chunks[k]

\* gTTS raised on the second of three chunks
C12_Witness ==
    /\ tts_raised = 2
    /\ Len(tts_chunks) = 3
    /\ Len(tts_saved) = 1
    /\ result = "False"

(***************************************************************************)
(* C13: when all four stages returned a value, os.remove is called once on *)
(* the audio file and the run returns True, whether the file was removed   *)
(* or not.                                                                 *)
(***************************************************************************)
C13_BestEffortCleanup ==
    /\ TtsReturnedPath => pc \in {"cleanup", "return_289"}
    /\ pc = "return_289"
       => /\ result = "True"
          /\ remove_calls = 1
          /\ temp_audio \in {"removed", "present"}

\* all stages succeeded, os.remove raised, the run returned True
C13_Witness ==
    /\ pc = "return_289"
    /\ returned_empty = {}
    /\ remove_calls = 1
    /\ temp_audio = "present"
    /\ result = "True"

(***************************************************************************)
(* The terminal positions of process_youtube_video.                        *)
(***************************************************************************)
\* the return False statements
FailedPcs == {"return_262", "return_267", "return_272", "return_277"}

\* every return statement
TerminalPcs == FailedPcs \cup {"return_289"}

\* extract_audio returned the path of the temporary audio file
Acquired == audio_file # NotYet /\ audio_file # None

(***************************************************************************)
(* C14: a run that acquired the audio file and has returned, with True or  *)
(* with False, has called os.remove on that file.                          *)
(***************************************************************************)
C14_NoLeakOnTerminal ==
    ( Acquired /\ pc \in TerminalPcs ) => remove_calls >= 1

(***************************************************************************)
(* C15: a run that returned False has not called os.remove, and the audio  *)
(* file it acquired is still in place.                                     *)
(***************************************************************************)
C15_NoCleanupOnFailure ==
    pc \in FailedPcs
    => /\ remove_calls = 0
       /\ Acquired => temp_audio = "present"
       /\ ~Acquired => temp_audio = "absent"

\* synthesis failed after the audio file was acquired
C15_Witness ==
    /\ pc = "return_277"
    /\ Acquired
    /\ temp_audio = "present"
    /\ remove_calls = 0

(***************************************************************************)
(* C16: every translate_text call that returns a text leaves               *)
(* text/translated_text.txt holding that text.                             *)
(***************************************************************************)
C16_ArtifactAlways ==
    ( TranslateReturned /\ korean_text # None ) => translated_file = korean_text

(***************************************************************************)
(* C16 as amended: every translate_text call made with a model configured  *)
(* that returns a text leaves text/translated_text.txt holding that text.  *)
(***************************************************************************)
C16_ArtifactWithModel ==
    ( TranslateReturned /\ korean_text # None /\ ollama_model # None )
    => translated_file = korean_text

\* a text made of one reply and one fallback chunk was written and returned
C16_Witness ==
    /\ TranslateReturned
    /\ ollama_model # None
    /\ Len(chunks) = 2
    /\ Failures(1) = 0
    /\ Failures(2) = max_retries
    /\ korean_text = <<"k", "o", " ">> \o chunks[2]
    /\ translated_file = korean_text

(***************************************************************************)
(* C17: in the retry loop, each request that raised and was not the        *)
(* max_retries-th for its chunk is followed by one time.sleep(2) before    *)
(* the next request for the chunk; no sleep follows the max_retries-th     *)
(* raise or a reply.                                                       *)
(***************************************************************************)
Min(a, b) == IF a <= b THEN a ELSE b

C17_BackoffBetweenAttempts ==
    /\ DOMAIN sleeps = 1..Len(chunks)
    /\ \A c \in 1..Len(chunks) :
          IF c = i /\ pc = "sleep"
          THEN /\ Failures(c) < max_retries
               /\ sleeps[c] = Failures(c) - 1
               /\ exchanges[Len(exchanges)] = [chunk |-> c, reply |-> Raise]
          ELSE sleeps[c] = Min(Failures(c), max_retries - 1)
    /\ ( pc = "while" /\ WhileTest ) => sleeps[i] = Failures(i)

\* a chunk answered after one raise and one sleep, and a chunk that raised
\* max_retries times with max_retries - 1 sleeps
C17_Witness ==
    /\ Len(translated_chunks) >= 2
    /\ Failures(1) = 1
    /\ sleeps[1] = 1
    /\ translated_chunks[1] = <<"k", "o">>
    /\ Failures(2) = max_retries
    /\ sleeps[2] = max_retries - 1

(***************************************************************************)
(* C18: process_youtube_video calls extract_audio, transcribe_audio,       *)
(* translate_text, text_to_speech in this order, each at most once; it     *)
(* returns True only after all four were called and each returned a        *)
(* non-empty value.                                                        *)
(***************************************************************************)
C18_StageOrder ==
    entry = "process"
    => /\ invoked = SubSeq(Stages, 1, Len(invoked))
       /\ pc = "return_289"
          => /\ invoked = Stages
             /\ returned_empty = {}
             /\ \A v \in {audio_file, english_text, korean_text, output_file} :
                   v # NotYet /\ Truthy(v)

\* a run that returned True
C18_Witness ==
    /\ entry = "process"
    /\ pc = "return_289"
    /\ invoked = Stages
    /\ result = "True"

(***************************************************************************)
(* C19: a sentence of the text that is alone at least max_length long is   *)
(* a chunk of its own: the chunk at its place holds this one sentence and  *)
(* is the sentence with its terminator, trimmed, whether the sentence is   *)
(* the first, a middle or the last one of the text.                        *)
(***************************************************************************)
\* the number of sentences held by the chunks before chunk c
RECURSIVE SentencesBefore(_, _)
SentencesBefore(chunk_seq, c) ==
    IF c <= 1 THEN 0
    ELSE SentencesBefore(chunk_seq, c - 1)
             + Len(ChunkSentences(chunk_seq[c - 1]))

C19_OversizedSentenceAlone ==
    SplitReturned
    => LET orig == sentences_of(st_text)
       IN  \A k \in DOMAIN orig :
              Len(orig[k]) >= st_max_length
              => \E c \in DOMAIN st_chunks :
                    /\ SentencesBefore(st_chunks, c) = k - 1
                    /\ Len(ChunkSentences(st_chunks[c])) = 1
                    /\ st_chunks[c] = strip(orig[k] \o DotSpace)

\* an oversized sentence between two sentences that fit
C19_Witness ==
    /\ SplitReturned
    /\ Len(sentences_of(st_text)) = 3
    /\ Len(sentences_of(st_text)[1]) < st_max_length
    /\ Len(sentences_of(st_text)[2]) >= st_max_length
    /\ Len(sentences_of(st_text)[3]) < st_max_length
    /\ Len(st_chunks) = 3
    /\ st_chunks[2] = sentences_of(st_text)[2] \o <<".">>

(***************************************************************************)
(* C20: every run of process_youtube_video reaches a return statement;     *)
(* translate_text makes at least one and at most max_retries requests per  *)
(* chunk, at most max_retries * len(chunks) in all, and makes no request   *)
(* for a chunk before the chunk before it has its outcome.                 *)
(***************************************************************************)
RequestBudget ==
    /\ Len(exchanges) <= max_retries * Len(chunks)
    /\ \A c \in 1..Len(chunks) : Len(ExchangesFor(c)) <= max_retries
    /\ \A c \in Settled : Len(ExchangesFor(c)) >= 1
    /\ \A k \in DOMAIN exchanges :
          /\ exchanges[k].chunk \in 1..(Len(translated_chunks) + 1)
          /\ \A m \in DOMAIN exchanges :
                k < m => exchanges[k].chunk <= exchanges[m].chunk

C20_TerminatesWithinBudget ==
    /\ (entry = "process") ~> (pc \in TerminalPcs)
    /\ []RequestBudget

\* a finished run of three chunks, one of which used all its requests and
\* one of which was answered at once
C20_Witness ==
    /\ entry = "process"
    /\ pc \in TerminalPcs
    /\ Len(chunks) = 3
    /\ \E c \in 1..3 : Len(ExchangesFor(c)) = max_retries
    /\ \E c \in 1..3 : Len(ExchangesFor(c)) = 1

====
